---- MODULE Spec2Model ----
(***************************************************************************)
(* AutoNetLab: the TopologyManager (load / validate / adjacency queries /  *)
(* breadth-first path search over the held topology document) and the      *)
(* DeviceManager (the session map kept over the external CLI driver).      *)
(*                                                                         *)
(* Python values are modelled structurally.  A topology document is a      *)
(* mapping: `keys` are its top-level keys, the value stored under devices  *)
(* is a dict (device name -> set of property names present) or a list of   *)
(* names, the value under connections is a list of connection items or a   *)
(* scalar.  A connection item is a dict or not; its endpoints entry is     *)
(* missing, a list or a scalar; an endpoint is a dict with or without a    *)
(* device entry.  Device names are strings, the empty string included.     *)
(***************************************************************************)
EXTENDS Integers, Sequences, FiniteSets, TLC

VARIABLES
    topology,      \* TopologyManager.topology: the held document (or None)
    result,        \* outcome of the last TopologyManager call
    connections,   \* DeviceManager.connections: host -> session handle
    active,        \* driver side: handles opened and not closed
    closeCalls,    \* driver side: handle -> number of disconnect() calls on it
    nextHandle,    \* driver side: the next fresh handle
    dresult,       \* outcome of the last DeviceManager call
    fs,            \* file system: path -> content of the file, or NoFile
    cinput,        \* the arguments the ConfigManager is called with
    cresult        \* outcome of the last ConfigManager call

vars == <<topology, result, connections, active, closeCalls, nextHandle, dresult, fs, cinput, cresult>>
topoVars == <<topology, result>>
devVars == <<connections, active, closeCalls, nextHandle, dresult>>
ioVars == <<fs>>
cfgVars == <<cinput, cresult>>

---------------------------------------------------------------------------
(* Bounds of the model *)

\* total number of endpoint entries over all connections of a graph document
MaxEndpoints == 4
\* number of sessions the driver hands out in one run
MaxHandles == 3
\* number of fragments of a captured command output
MaxOutputLen == 2
\* number of pieces a template is put together from
MaxTemplatePieces == 3
\* number of fragments of a configuration text
MaxConfigLen == 3

---------------------------------------------------------------------------
(* Documents *)

Names == {"", "A", "B", "C"}
RequiredKeys == <<"name", "devices", "connections">>
RequiredDeviceProps == <<"type", "management">>
TopKeys == {"name", "devices", "connections", "other"}
AllProps == {"type", "management"}

SeqToSet(s) == {s[i] : i \in 1..Len(s)}

RECURSIVE SeqsOver(_, _)
SeqsOver(S, n) ==
    IF n = 0 THEN {<<>>}
    ELSE {Append(s, x) : s \in SeqsOver(S, n - 1), x \in S}

\* texts are sequences of fragments; the texts of at most n fragments
RECURSIVE Texts(_, _)
Texts(alphabet, n) ==
    IF n = 0 THEN {<<>>} ELSE Texts(alphabet, n - 1) \cup SeqsOver(alphabet, n)

\* Python's `phrase in text`: phrase occurs as a contiguous part of text
Contains(text, phrase) ==
    \E i \in 1..(Len(text) - Len(phrase) + 1) :
        SubSeq(text, i, i + Len(phrase) - 1) = phrase

Endpoint(n) == [hasDevice |-> TRUE, device |-> n]
EndpointNoDevice == [hasDevice |-> FALSE, device |-> ""]
Conn(eps) == [isDict |-> TRUE, endpointsKind |-> "list", endpoints |-> eps]
ConnNotDict == [isDict |-> FALSE, endpointsKind |-> "missing", endpoints |-> <<>>]
ConnNoEndpoints == [isDict |-> TRUE, endpointsKind |-> "missing", endpoints |-> <<>>]
ConnScalarEndpoints == [isDict |-> TRUE, endpointsKind |-> "scalar", endpoints |-> <<>>]

CompleteDevices(S) == [n \in S |-> AllProps]

\* the value held before any load: self.topology = None
NoTopology ==
    [isNone |-> TRUE, keys |-> {}, devicesIsDict |-> TRUE, devices |-> CompleteDevices({}),
     connectionsIsList |-> TRUE, connections |-> <<>>]

\* values a file can hold that are not mappings: a non-empty list, a non-zero
\* number (the empty document and JSON null are None)
ListValue == [isNone |-> FALSE, nonMapping |-> "list"]
ScalarValue == [isNone |-> FALSE, nonMapping |-> "scalar"]
IsMapping(value) == ~value.isNone /\ "keys" \in DOMAIN value

\* a loaded mapping; the value of an absent key is normalised away
Doc(keys, devIsDict, devs, connIsList, conns) ==
    [isNone |-> FALSE, keys |-> keys,
     devicesIsDict |-> IF "devices" \in keys THEN devIsDict ELSE TRUE,
     devices |-> IF "devices" \in keys THEN devs ELSE CompleteDevices({}),
     connectionsIsList |-> IF "connections" \in keys THEN connIsList ELSE TRUE,
     connections |-> IF "connections" \in keys /\ connIsList THEN conns ELSE <<>>]

\* well-formed connection lists over the given names using at most `budget`
\* endpoint entries
RECURSIVE ConnLists(_, _)
ConnLists(names, budget) ==
    {<<>>} \cup
    UNION {{<<Conn(eps)>> \o rest :
                eps \in SeqsOver({Endpoint(n) : n \in names}, k),
                rest \in ConnLists(names, budget - k)} : k \in 1..budget}

\* graph documents: connections over A, B, C, with all, some or none of them declared
GraphNames == {"A", "B", "C"}
GraphDeviceSets == {{"A", "B", "C"}, {"A", "B"}, {"A"}, {}}

GraphDocs ==
    {Doc({"name", "devices", "connections"}, TRUE, CompleteDevices(S), TRUE, c) :
        S \in GraphDeviceSets, c \in ConnLists(GraphNames, MaxEndpoints)}

\* documents that declare a device under the empty name: up to two two-endpoint
\* connections over "", A, B
EmptyNamePairs == SeqsOver({Endpoint(n) : n \in {"", "A", "B"}}, 2)
EmptyNameConnLists ==
    {<<>>} \cup {<<Conn(p)>> : p \in EmptyNamePairs}
           \cup {<<Conn(p), Conn(q)>> : p, q \in EmptyNamePairs}

EmptyNameDocs ==
    {Doc({"name", "devices", "connections"}, TRUE, CompleteDevices(S), TRUE, c) :
        S \in {{"", "A"}, {"", "A", "B"}}, c \in EmptyNameConnLists}

\* ill-formed or degenerate connection values, over declared set {A, B}
OddItems ==
    {ConnNotDict, ConnNoEndpoints, ConnScalarEndpoints, Conn(<<>>),
     Conn(<<EndpointNoDevice>>), Conn(<<Endpoint("A")>>),
     Conn(<<Endpoint("A"), Endpoint("B")>>), Conn(<<Endpoint("A"), Endpoint("C")>>),
     Conn(<<EndpointNoDevice, Endpoint("C")>>), Conn(<<Endpoint("A"), Endpoint("A")>>)}
OddConnLists == SeqsOver(OddItems, 0) \cup SeqsOver(OddItems, 1) \cup SeqsOver(OddItems, 2)

ConnDocs ==
    {Doc({"name", "devices", "connections"}, TRUE, CompleteDevices({"A", "B"}), l, c) :
        l \in BOOLEAN, c \in OddConnLists}

\* device tables with incomplete entries, or given as a list
DeviceTables == UNION {[S -> SUBSET AllProps] : S \in SUBSET {"A", "B"}}
SmallConnLists ==
    {<<>>, <<Conn(<<Endpoint("A"), Endpoint("B")>>)>>, <<Conn(<<Endpoint("A"), Endpoint("C")>>)>>}

DeviceDocs ==
    {Doc({"name", "devices", "connections"}, d, t, TRUE, c) :
        d \in BOOLEAN, t \in DeviceTables, c \in SmallConnLists}

\* any combination of top-level keys, the empty mapping included
KeyDocs ==
    {Doc(k, d, CompleteDevices({"A", "B"}), l, c) :
        k \in SUBSET TopKeys, d \in BOOLEAN, l \in BOOLEAN, c \in SmallConnLists}

Docs == GraphDocs \cup EmptyNameDocs \cup ConnDocs \cup DeviceDocs \cup KeyDocs

\* larger graphs for the path search: five devices, the one under the empty name
\* included, and any selection (in this order) of two-party links, a repeated
\* link, a three-party connection and a connection listing a device twice
PathNames == {"", "A", "B", "C", "D"}
PathLinks ==
    <<Conn(<<Endpoint("A"), Endpoint("")>>), Conn(<<Endpoint(""), Endpoint("B")>>),
      Conn(<<Endpoint("A"), Endpoint("C")>>), Conn(<<Endpoint("C"), Endpoint("D")>>),
      Conn(<<Endpoint("D"), Endpoint("B")>>), Conn(<<Endpoint("A"), Endpoint("C")>>),
      Conn(<<Endpoint("A"), Endpoint("C"), Endpoint("D")>>),
      Conn(<<Endpoint("C"), Endpoint("C"), Endpoint("D")>>)>>

\* the links at the chosen positions, in order
RECURSIVE Selection(_, _)
Selection(links, chosen) ==
    IF links = <<>> THEN <<>>
    ELSE Selection(SubSeq(links, 1, Len(links) - 1), chosen)
         \o (IF Len(links) \in chosen THEN <<links[Len(links)]>> ELSE <<>>)

PathDocs ==
    {Doc({"name", "devices", "connections"}, TRUE, CompleteDevices(PathNames), TRUE,
         Selection(PathLinks, chosen)) : chosen \in SUBSET (1..Len(PathLinks))}

---------------------------------------------------------------------------
(* Outcomes of TopologyManager calls.  errors / warnings count the log      *)
(* entries written at those levels during the call; info entries are not   *)
(* recorded.  index is the 0-based connection number of a message.  iters  *)
(* counts the passes of the search loop, enqueued lists the devices put on *)
(* the search queue, in order.                                             *)

Blank ==
    [op |-> "none", src |-> "", dst |-> "", exc |-> "none", tag |-> "", subject |-> "",
     missing |-> <<>>, index |-> -1, value |-> FALSE, path |-> <<>>, conns |-> <<>>,
     devices |-> {}, errors |-> 0, warnings |-> 0, iters |-> 0, enqueued |-> <<>>]

Raise(exc, tag, subject, errors) ==
    [Blank EXCEPT !.exc = exc, !.tag = tag, !.subject = subject, !.errors = errors]

\* Python truthiness of the held value: None and the empty mapping are falsy
Falsy(doc) == doc.isNone \/ (IsMapping(doc) /\ doc.keys = {})

\* self.topology.get('devices', {}) used as a container for `in`
DevicesContainer(doc) == DOMAIN doc.devices

---------------------------------------------------------------------------
(* TopologyManager.validate_topology *)

NoViolation == Blank

\* the endpoint loop of one connection: first endpoint without 'device', or
\* naming a device that is not declared
RECURSIVE check_endpoints(_, _, _, _)
check_endpoints(endpoints, j, i, device_names) ==
    IF j > Len(endpoints) THEN NoViolation
    ELSE IF ~endpoints[j].hasDevice
         THEN [Raise("TopologyValidationError", "EndpointMissingDevice", "", 1)
                   EXCEPT !.index = i - 1]
    ELSE IF endpoints[j].device \notin device_names
         THEN [Raise("TopologyValidationError", "NonExistentDevice", endpoints[j].device, 1)
                   EXCEPT !.index = i - 1]
    ELSE check_endpoints(endpoints, j + 1, i, device_names)

\* the enumerate() loop over the connections, from item i on
RECURSIVE check_connections(_, _, _)
check_connections(conns, i, device_names) ==
    IF i > Len(conns) THEN NoViolation
    ELSE IF ~conns[i].isDict
         THEN [Raise("TopologyValidationError", "ConnectionNotDict", "", 1)
                   EXCEPT !.index = i - 1]
    ELSE IF conns[i].endpointsKind = "missing"
         THEN [Raise("TopologyValidationError", "MissingEndpoints", "", 1)
                   EXCEPT !.index = i - 1]
    ELSE IF conns[i].endpointsKind = "scalar"
         \* iterating a scalar raises TypeError, which the handler logs and wraps
         THEN Raise("TopologyValidationError", "Unexpected", "", 1)
    ELSE LET v == check_endpoints(conns[i].endpoints, 1, i, device_names)
         IN  IF v.exc # "none" THEN v
             ELSE check_connections(conns, i + 1, device_names)

\* a variant that looks only at the first endpoint of every connection
validate_connections_first_endpoint(doc) ==
    IF ~doc.connectionsIsList
    THEN Raise("TopologyValidationError", "ConnectionsNotList", "", 1)
    ELSE check_connections(
             [i \in 1..Len(doc.connections) |->
                 [doc.connections[i] EXCEPT !.endpoints = IF @ = <<>> THEN @ ELSE <<Head(@)>>]],
             1, DOMAIN doc.devices)

\* a variant that insists on two endpoints per connection
validate_connections_pairs(doc) ==
    IF ~doc.connectionsIsList
    THEN Raise("TopologyValidationError", "ConnectionsNotList", "", 1)
    ELSE IF \E i \in 1..Len(doc.connections) :
                doc.connections[i].isDict /\ doc.connections[i].endpointsKind = "list"
                /\ Len(doc.connections[i].endpoints) < 2
         THEN Raise("TopologyValidationError", "TooFewEndpoints", "", 1)
    ELSE check_connections(doc.connections, 1, DOMAIN doc.devices)

\* "Validate connections" and "Check that all connections reference valid devices"
validate_connections(doc) ==
    IF ~doc.connectionsIsList
    THEN Raise("TopologyValidationError", "ConnectionsNotList", "", 1)
    ELSE check_connections(doc.connections, 1, DOMAIN doc.devices)

\* "Validate devices": the set of violations the device loop can report first.
\* The loop follows the dict's key order, which the document model does not
\* keep, so any incomplete device may be the first one met.
validate_devices(doc) ==
    IF ~doc.devicesIsDict
    THEN {Raise("TopologyValidationError", "DevicesNotDict", "", 1)}
    ELSE {[Raise("TopologyValidationError", "DeviceMissingProps", d, 1)
               EXCEPT !.missing = SelectSeq(RequiredDeviceProps,
                                            LAMBDA p : p \notin doc.devices[d])] :
              d \in {n \in DOMAIN doc.devices : doc.devices[n] # AllProps}}

MissingKeys(doc) == SelectSeq(RequiredKeys, LAMBDA k : k \notin doc.keys)

\* the set of outcomes of validate_topology() on the held document
validate_topology(doc) ==
    IF Falsy(doc) THEN {[Raise("ValueError", "NoTopology", "", 1) EXCEPT !.op = "validate"]}
    ELSE IF MissingKeys(doc) # <<>>
         THEN {[Raise("TopologyValidationError", "MissingKeys", "", 1)
                    EXCEPT !.op = "validate", !.missing = MissingKeys(doc)]}
    ELSE IF validate_devices(doc) # {}
         THEN {[v EXCEPT !.op = "validate"] : v \in validate_devices(doc)}
    ELSE IF validate_connections(doc).exc # "none"
         THEN {[validate_connections(doc) EXCEPT !.op = "validate"]}
    ELSE {[Blank EXCEPT !.op = "validate", !.value = TRUE]}

---------------------------------------------------------------------------
(* TopologyManager.get_device_connections / get_connected_devices *)

\* any(endpoint.get('device') == device_name for endpoint in endpoints)
HasEndpoint(conn, device_name) ==
    \E j \in 1..Len(conn.endpoints) :
        conn.endpoints[j].hasDevice /\ conn.endpoints[j].device = device_name

\* the loop over self.topology.get('connections', []), from item i on; acc holds
\* the indices of the connections kept so far.  A connection that is no dict has
\* no .get (AttributeError); an endpoints value that is a scalar cannot be
\* iterated (TypeError).  Neither is logged.
RECURSIVE scan_connections(_, _, _, _)
scan_connections(conns, i, device_name, acc) ==
    IF i > Len(conns) THEN [Blank EXCEPT !.conns = acc]
    ELSE IF ~conns[i].isDict THEN Raise("AttributeError", "NoGet", "", 0)
    ELSE IF conns[i].endpointsKind = "scalar" THEN Raise("TypeError", "NotIterable", "", 0)
    ELSE scan_connections(conns, i + 1, device_name,
                          IF HasEndpoint(conns[i], device_name) THEN Append(acc, i) ELSE acc)

get_device_connections(doc, device_name) ==
    IF Falsy(doc) THEN Raise("ValueError", "NoTopology", "", 1)
    ELSE IF device_name \notin DevicesContainer(doc)
         THEN Raise("ValueError", "DeviceNotFound", device_name, 1)
    ELSE IF ~doc.connectionsIsList THEN Raise("TypeError", "NotIterable", "", 0)
    ELSE scan_connections(doc.connections, 1, device_name, <<>>)

\* Python truthiness of endpoint.get('device'): a missing entry (None) and the
\* empty string are falsy
TruthyDevice(endpoint) == endpoint.hasDevice /\ endpoint.device # ""

\* the other endpoints of the given connections (a set)
OtherEndpoints(doc, idxs, device_name) ==
    UNION {{doc.connections[idxs[k]].endpoints[j].device :
                j \in {e \in 1..Len(doc.connections[idxs[k]].endpoints) :
                          /\ TruthyDevice(doc.connections[idxs[k]].endpoints[e])
                          /\ doc.connections[idxs[k]].endpoints[e].device # device_name}} :
           k \in 1..Len(idxs)}

get_connected_devices(doc, device_name) ==
    LET c == get_device_connections(doc, device_name)
    IN  IF c.exc # "none" THEN c
        ELSE [c EXCEPT !.devices = OtherEndpoints(doc, c.conns, device_name)]

---------------------------------------------------------------------------
(* TopologyManager.verify_connectivity_path *)

\* the orders in which a Python set of names may be iterated
Orderings(S) ==
    {f \in [1..Cardinality(S) -> S] : \A a, b \in 1..Cardinality(S) : f[a] = f[b] => a = b}

\* the for loop over connected_devices, taken in the given order from position i
RECURSIVE for_next_device(_, _, _, _, _, _, _)
for_next_device(order, i, target_device, path, queue, visited, enqueued) ==
    IF i > Len(order)
    THEN [returned |-> FALSE, full_path |-> <<>>, queue |-> queue, visited |-> visited,
          enqueued |-> enqueued]
    ELSE IF order[i] = target_device
         THEN [returned |-> TRUE, full_path |-> Append(path, order[i]),
               queue |-> queue, visited |-> visited, enqueued |-> enqueued]
    ELSE IF order[i] \notin visited
         THEN for_next_device(order, i + 1, target_device, path,
                 Append(queue, [device |-> order[i], path |-> Append(path, order[i])]),
                 visited \cup {order[i]}, Append(enqueued, order[i]))
    ELSE for_next_device(order, i + 1, target_device, path, queue, visited, enqueued)

\* the search loop marking a device visited when it is taken from the queue
\* instead of when it is put on it
RECURSIVE while_queue_mark_on_pop(_, _, _, _, _, _)
while_queue_mark_on_pop(doc, target_device, queue, visited, iters, enqueued) ==
    IF queue = <<>>
    THEN {[Blank EXCEPT !.warnings = 1, !.iters = iters, !.enqueued = enqueued]}
    ELSE LET current == Head(queue)
             nb == get_connected_devices(doc, current.device)
         IN  IF nb.exc # "none"
             THEN {[nb EXCEPT !.iters = iters + 1, !.enqueued = enqueued]}
             ELSE UNION {
                 LET r == for_next_device(order, 1, target_device, current.path,
                                          Tail(queue), visited \cup {current.device},
                                          enqueued)
                 IN  IF r.returned
                     THEN {[Blank EXCEPT !.value = TRUE, !.path = r.full_path,
                                         !.iters = iters + 1, !.enqueued = r.enqueued]}
                     ELSE while_queue_mark_on_pop(doc, target_device, r.queue,
                              visited \cup {current.device}, iters + 1, r.enqueued)
                 : order \in Orderings(nb.devices)}

\* the while loop over the queue: the set of outcomes over all iteration orders
RECURSIVE while_queue(_, _, _, _, _, _)
while_queue(doc, target_device, queue, visited, iters, enqueued) ==
    IF queue = <<>>
    THEN {[Blank EXCEPT !.warnings = 1, !.iters = iters, !.enqueued = enqueued]}
    ELSE LET current == Head(queue)
             nb == get_connected_devices(doc, current.device)
         IN  IF nb.exc # "none"
             THEN {[nb EXCEPT !.iters = iters + 1, !.enqueued = enqueued]}
             ELSE UNION {
                 LET r == for_next_device(order, 1, target_device, current.path,
                                          Tail(queue), visited, enqueued)
                 IN  IF r.returned
                     THEN {[Blank EXCEPT !.value = TRUE, !.path = r.full_path,
                                         !.iters = iters + 1, !.enqueued = r.enqueued]}
                     ELSE while_queue(doc, target_device, r.queue, r.visited, iters + 1,
                                      r.enqueued)
                 : order \in Orderings(nb.devices)}

\* the search without the source == target shortcut
verify_connectivity_path_no_shortcut(doc, source_device, target_device) ==
    IF Falsy(doc) THEN {Raise("ValueError", "NoTopology", "", 1)}
    ELSE IF ~doc.devicesIsDict THEN {Raise("AttributeError", "NoKeys", "", 0)}
    ELSE IF source_device \notin DOMAIN doc.devices
         THEN {Raise("ValueError", "SourceNotFound", source_device, 1)}
    ELSE IF target_device \notin DOMAIN doc.devices
         THEN {Raise("ValueError", "TargetNotFound", target_device, 1)}
    ELSE while_queue(doc, target_device,
                     <<[device |-> source_device, path |-> <<source_device>>]>>,
                     {source_device}, 0, <<source_device>>)

\* the set of outcomes of verify_connectivity_path(source, target)
verify_connectivity_path(doc, source_device, target_device) ==
    IF Falsy(doc) THEN {Raise("ValueError", "NoTopology", "", 1)}
    \* set(self.topology.get('devices', {}).keys()): a list has no keys()
    ELSE IF ~doc.devicesIsDict THEN {Raise("AttributeError", "NoKeys", "", 0)}
    ELSE IF source_device \notin DOMAIN doc.devices
         THEN {Raise("ValueError", "SourceNotFound", source_device, 1)}
    ELSE IF target_device \notin DOMAIN doc.devices
         THEN {Raise("ValueError", "TargetNotFound", target_device, 1)}
    ELSE IF source_device = target_device
         THEN {[Blank EXCEPT !.value = TRUE, !.path = <<source_device>>]}
    ELSE while_queue(doc, target_device,
                     <<[device |-> source_device, path |-> <<source_device>>]>>,
                     {source_device}, 0, <<source_device>>)

---------------------------------------------------------------------------
(* The file system and the ConfigManager outcome at start *)

\* a file is absent, or holds text that is block-style YAML, JSON, or neither;
\* value is what the text denotes
File(kind, value) == [kind |-> kind, value |-> value]
NoFile == File("absent", NoTopology)
Garbage == File("garbage", NoTopology)
Paths == {"t.yaml", "t.json", "t.txt"}
Formats == {"yaml", "json", "xml"}

IoInit == fs = [p \in Paths |-> NoFile]

\* a YAML mapping key may be an integer: the device declared under the integer 7.
\* JSON object keys are strings: json.dump writes that key as the string "7".
\* Integers in value position (an endpoint's device) are written as integers.
IntName == "int 7"
json_key(name) == IF name = IntName THEN "7" ELSE name

rekey(devices) ==
    [k \in {json_key(n) : n \in DOMAIN devices} |->
        devices[CHOOSE n \in DOMAIN devices : json_key(n) = k]]

\* what the text written by json.dump(value) denotes
json_dump(value) ==
    IF IsMapping(value) /\ value.devicesIsDict
    THEN [value EXCEPT !.devices = rekey(@)]
    ELSE value

\* what the text written by yaml.dump(value) denotes
yaml_dump(value) == value

\* documents that files hold
IoDocs ==
    {Doc({}, TRUE, CompleteDevices({}), TRUE, <<>>)} \cup
    {Doc({"name", "devices", "connections"}, TRUE, CompleteDevices({"A", n}), TRUE,
         <<Conn(<<Endpoint("A"), Endpoint(n)>>)>>) : n \in {"B", IntName}}

JsonValues == {json_dump(v) : v \in IoDocs \cup {NoTopology, ListValue, ScalarValue}}
YamlValues == JsonValues \cup IoDocs

FileContents ==
    {Garbage} \cup {File("yaml", yaml_dump(v)) : v \in YamlValues}
              \cup {File("json", v) : v \in JsonValues}

\* os.path.splitext(topology_file)[1].lower()
file_extension(path) ==
    IF path = "t.yaml" THEN ".yaml" ELSE IF path = "t.json" THEN ".json" ELSE ".txt"

\* after self.topology = <parsed value>: the info line calls .get on it
loaded(value) ==
    IF IsMapping(value)
    THEN [topology |-> value, out |-> [Blank EXCEPT !.value = TRUE]]
    ELSE [topology |-> value, out |-> Raise("AttributeError", "NoGet", "", 0)]

\* load_topology(topology_file): the held value afterwards and the outcome.
\* yaml.safe_load reads block-style YAML and JSON text; json.load reads JSON text.
load_topology(held, topology_file, file) ==
    IF file.kind = "absent"
    THEN [topology |-> held, out |-> Raise("FileNotFoundError", "NotFound", topology_file, 1)]
    ELSE IF file_extension(topology_file) \in {".yaml", ".yml"}
         THEN IF file.kind \in {"yaml", "json"}
              THEN loaded(file.value)
              ELSE [topology |-> held, out |-> Raise("YAMLError", "Parse", topology_file, 1)]
    ELSE IF file_extension(topology_file) = ".json"
         THEN IF file.kind = "json"
              THEN loaded(file.value)
              ELSE [topology |-> held,
                    out |-> Raise("JSONDecodeError", "Parse", topology_file, 1)]
    ELSE [topology |-> held,
          out |-> Raise("ValueError", "UnsupportedExtension", topology_file, 1)]

\* export_topology(output_file, format_type): the file written and the outcome
export_topology(held, output_file, format_type, file) ==
    IF Falsy(held)
    THEN [file |-> file, out |-> Raise("ValueError", "NoTopology", "", 1)]
    ELSE IF format_type = "yaml"
         THEN [file |-> File("yaml", yaml_dump(held)), out |-> Blank]
    ELSE IF format_type = "json"
         THEN [file |-> File("json", json_dump(held)), out |-> Blank]
    \* logged where it is raised and again by the except clause
    ELSE [file |-> file, out |-> Raise("ValueError", "UnsupportedFormat", format_type, 2)]

\* no ConfigManager call
NoCall ==
    [call |-> "none", template |-> <<>>, variables |-> <<>>, config |-> <<>>,
     device_type |-> ""]

CBlank ==
    [op |-> "none", out |-> <<>>, value |-> FALSE, exc |-> "none", errors |-> 0,
     warnings |-> 0]

CfgInit == cinput = NoCall /\ cresult = CBlank

---------------------------------------------------------------------------
(* The TopologyManager as a state machine.  The queries do not change the  *)
(* held document, so the held document is drawn once: None (after          *)
(* construction) or any document a successful load leaves behind.          *)

TopoInit ==
    /\ topology \in {NoTopology} \cup Docs
    /\ result = Blank

Validate ==
    /\ \E o \in validate_topology(topology) : result' = o
    /\ UNCHANGED <<topology, devVars, ioVars, cfgVars>>

GetDeviceConnections(n) ==
    /\ result' = [get_device_connections(topology, n)
                      EXCEPT !.op = "getDeviceConnections", !.src = n]
    /\ UNCHANGED <<topology, devVars, ioVars, cfgVars>>

GetConnectedDevices(n) ==
    /\ result' = [get_connected_devices(topology, n)
                      EXCEPT !.op = "getConnectedDevices", !.src = n]
    /\ UNCHANGED <<topology, devVars, ioVars, cfgVars>>

FindPath(s, t) ==
    /\ \E o \in verify_connectivity_path(topology, s, t) :
           result' = [o EXCEPT !.op = "findPath", !.src = s, !.dst = t]
    /\ UNCHANGED <<topology, devVars, ioVars, cfgVars>>

Load(topology_file) ==
    /\ LET r == load_topology(topology, topology_file, fs[topology_file])
       IN  /\ topology' = r.topology
           /\ result' = [r.out EXCEPT !.op = "load", !.src = topology_file]
    /\ UNCHANGED <<devVars, ioVars, cfgVars>>

Export(output_file, format_type) ==
    /\ LET r == export_topology(topology, output_file, format_type, fs[output_file])
       IN  /\ fs' = [fs EXCEPT ![output_file] = r.file]
           /\ result' = [r.out EXCEPT !.op = "export", !.src = output_file,
                                      !.dst = format_type]
    /\ UNCHANGED <<topology, devVars, cfgVars>>

---------------------------------------------------------------------------
(* DeviceManager: the session map over the external driver *)

Hosts == {"h1", "h2"}
Handles == 1..MaxHandles
required_params == <<"device_type", "host", "username", "password">>
DriverOutcomes == {"ok", "timeout", "auth", "other"}
\* connection.disconnect() returns, or raises having closed the session or not
CloseOutcomes == {"closed", "raised_closed", "raised_open"}

EmptyMap == [h \in {} |-> 0]
NoCloses == [h \in Handles |-> 0]

DBlank ==
    [op |-> "none", device_name |-> "", all |-> FALSE, present |-> {}, driver |-> "notcalled",
     exc |-> "none", tag |-> "", subject |-> "", handle |-> 0, errors |-> 0,
     warnings |-> 0, pre |-> EmptyMap, closeCount |-> NoCloses,
     \* command relay: the arguments, the call made on the session (sent, sentOn,
     \* sentArg), what the session answered and what the caller got back
     config_type |-> "", commands |-> <<>>, sent |-> "none", sentOn |-> 0,
     sentArg |-> <<>>, driverOutput |-> <<>>, output |-> <<>>, reachable |-> FALSE]

\* a variant that keeps the session already stored under the name
connect_store_keep_first(conns, device_name, connection) ==
    [x \in DOMAIN conns \cup {device_name} |->
        IF x \in DOMAIN conns THEN conns[x] ELSE connection]

\* self.connections[device_name] = connection
connect_store(conns, device_name, connection) ==
    [x \in DOMAIN conns \cup {device_name} |->
        IF x = device_name THEN connection ELSE conns[x]]

\* connect(device_params): `present` are the keys of device_params, `host` the
\* value under 'host', `outcome` what ConnectHandler does if it is called and
\* `fresh` the handle it returns
connect(conns, present, host, outcome, fresh) ==
    LET device_name == IF "host" \in present THEN host ELSE "unknown"
        missing == SelectSeq(required_params, LAMBDA p : p \notin present)
        base == [DBlank EXCEPT !.op = "connect", !.device_name = device_name,
                               !.present = present, !.pre = conns]
    IN  IF missing # <<>>
        THEN [connections |-> conns, opened |-> FALSE,
              res |-> [base EXCEPT !.exc = "ValueError", !.tag = "MissingParameter",
                                   !.subject = missing[1]]]
        ELSE IF outcome = "ok"
        THEN [connections |-> connect_store(conns, device_name, fresh), opened |-> TRUE,
              res |-> [base EXCEPT !.driver = outcome, !.handle = fresh]]
        ELSE [connections |-> conns, opened |-> FALSE,
              res |-> [base EXCEPT !.driver = outcome, !.exc = "DeviceConnectionError",
                                   !.tag = outcome, !.errors = 1]]

\* a variant that closes before removing, and so keeps the entry when close raises
disconnect_device_close_first(conns, device_name, outcome) ==
    IF device_name \in DOMAIN conns
    THEN IF outcome = "closed"
         THEN [connections |-> [x \in DOMAIN conns \ {device_name} |-> conns[x]],
               closed |-> {conns[device_name]}, exc |-> "none", warnings |-> 0]
         ELSE [connections |-> conns,
               closed |-> {conns[device_name]}, exc |-> "none", warnings |-> 1]
    ELSE [connections |-> conns, closed |-> {}, exc |-> "none", warnings |-> 1]

\* disconnect(device_name) with a name: pop, then close inside try/except
disconnect_device(conns, device_name, outcome) ==
    IF device_name \in DOMAIN conns
    THEN [connections |-> [x \in DOMAIN conns \ {device_name} |-> conns[x]],
          closed |-> {conns[device_name]},
          \* except Exception: logged as a warning, not raised
          exc |-> "none",
          warnings |-> IF outcome = "closed" THEN 0 ELSE 1]
    ELSE [connections |-> conns, closed |-> {}, exc |-> "none", warnings |-> 1]

\* disconnect() without a name: close every stored session inside its own
\* try/except, then clear the map; outcomes gives each close's outcome
disconnect_all(conns, outcomes) ==
    [connections |-> EmptyMap,
     closed |-> {conns[d] : d \in DOMAIN conns},
     exc |-> "none",
     warnings |-> Cardinality({x \in DOMAIN conns : outcomes[conns[x]] # "closed"})]

---------------------------------------------------------------------------
(* DeviceManager: the command relay *)

ConfigTypes == {"commands", "file", "other"}
CommandLists == {<<>>, <<"c1">>, <<"c1", "c2">>}
\* a send_* call on the session returns the captured text or raises
SendOutcomes == {"returns", "raises"}
\* captured outputs of a ping: texts over fragments of ping output
PingFragments == {"Success rate is ", "0", "1", " packets received"}
Outputs == Texts(PingFragments, MaxOutputLen)
\* captured outputs of configuration and show commands
CommandOutputs == {<<>>, <<"ok">>, <<"% ", "Invalid", " input detected">>}
\* what a session does with a call: raise, or return one of the given texts
SessionAnswers(outs) ==
    {[outcome |-> "raises", out |-> <<>>]} \cup {[outcome |-> "returns", out |-> o] : o \in outs}
TargetIps == {"10.0.0.1"}

\* get_connection(device_name): the stored session or None (0), with a warning
get_connection(conns, device_name) ==
    IF device_name \in DOMAIN conns
    THEN [connection |-> conns[device_name], warnings |-> 0]
    ELSE [connection |-> 0, warnings |-> 1]

\* a send_* call on the session: it returns the captured text, or raises and
\* the handler logs at error level and re-raises
relay(base, connection, method, arg, outcome, out) ==
    IF outcome = "returns"
    THEN [base EXCEPT !.sent = method, !.sentOn = connection, !.sentArg = arg,
                      !.driver = outcome, !.driverOutput = out, !.output = out]
    ELSE [base EXCEPT !.sent = method, !.sentOn = connection, !.sentArg = arg,
                      !.driver = outcome, !.exc = "DriverError", !.errors = 1]

\* a variant that takes every mode other than "file" for "commands"
configure_send_default_commands(base, connection, commands, config_type, outcome, out) ==
    IF config_type = "file"
    THEN IF commands = <<>>
         THEN [base EXCEPT !.exc = "IndexError", !.errors = 1]
         ELSE relay(base, connection, "send_config_from_file", <<commands[1]>>, outcome, out)
    ELSE relay(base, connection, "send_config_set", commands, outcome, out)

\* the try block of configure: dispatch on config_type
configure_send(base, connection, commands, config_type, outcome, out) ==
    IF config_type = "commands"
    THEN relay(base, connection, "send_config_set", commands, outcome, out)
    ELSE IF config_type = "file"
         THEN IF commands = <<>>
              \* commands[0] on an empty list
              THEN [base EXCEPT !.exc = "IndexError", !.errors = 1]
              ELSE relay(base, connection, "send_config_from_file", <<commands[1]>>,
                         outcome, out)
    ELSE [base EXCEPT !.exc = "ValueError", !.tag = "InvalidMode",
                      !.subject = config_type, !.errors = 1]

\* configure(device_name, commands, config_type); `outcome` and `out` are what
\* the session does with the call, if it gets one
configure(conns, device_name, commands, config_type, outcome, out) ==
    LET g == get_connection(conns, device_name)
        base == [DBlank EXCEPT !.op = "configure", !.device_name = device_name,
                               !.commands = commands, !.config_type = config_type,
                               !.pre = conns, !.warnings = g.warnings]
    IN  IF g.connection = 0
        THEN [base EXCEPT !.exc = "DeviceConnectionError", !.tag = "NotConnected",
                          !.subject = device_name]
        ELSE configure_send(base, g.connection, commands, config_type, outcome, out)

\* execute_command(device_name, command)
execute_command(conns, device_name, command, outcome, out) ==
    LET g == get_connection(conns, device_name)
        base == [DBlank EXCEPT !.op = "execute", !.device_name = device_name,
                               !.pre = conns, !.warnings = g.warnings]
    IN  IF g.connection = 0
        THEN [base EXCEPT !.exc = "DeviceConnectionError", !.tag = "NotConnected",
                          !.subject = device_name]
        ELSE relay(base, g.connection, "send_command", command, outcome, out)

\* a variant that knows the first zero-success phrase only
validate_connectivity_first_phrase(conns, device_name, target_ip, outcome, out) ==
    LET e == execute_command(conns, device_name, <<"ping ", target_ip>>, outcome, out)
        r == [e EXCEPT !.op = "checkReachability", !.output = <<>>]
    IN  IF e.exc # "none"
        THEN [r EXCEPT !.exc = "none", !.tag = "", !.subject = "",
                       !.errors = e.errors + 1, !.reachable = FALSE]
        ELSE IF Contains(e.output, <<"Success rate is ", "0">>)
        THEN [r EXCEPT !.warnings = e.warnings + 1, !.reachable = FALSE]
        ELSE [r EXCEPT !.reachable = TRUE]

\* validate_connectivity(device_name, target_ip): everything raised by the ping
\* is caught, logged at error level and answered with False
validate_connectivity(conns, device_name, target_ip, outcome, out) ==
    LET e == execute_command(conns, device_name, <<"ping ", target_ip>>, outcome, out)
        r == [e EXCEPT !.op = "checkReachability", !.output = <<>>]
    IN  IF e.exc # "none"
        THEN [r EXCEPT !.exc = "none", !.tag = "", !.subject = "",
                       !.errors = e.errors + 1, !.reachable = FALSE]
        ELSE IF \/ Contains(e.output, <<"Success rate is ", "0">>)
                \/ Contains(e.output, <<"0", " packets received">>)
        THEN [r EXCEPT !.warnings = e.warnings + 1, !.reachable = FALSE]
        ELSE [r EXCEPT !.reachable = TRUE]

DevInit ==
    /\ connections = EmptyMap
    /\ active = {}
    /\ closeCalls = NoCloses
    /\ nextHandle = 1
    /\ dresult = DBlank

Connect(present, host, outcome) ==
    LET c == connect(connections, present, host, outcome, nextHandle)
    IN  /\ c.opened => nextHandle <= MaxHandles
        /\ connections' = c.connections
        /\ active' = IF c.opened
                     THEN active \cup {[handle |-> nextHandle, host |-> c.res.device_name]}
                     ELSE active
        /\ nextHandle' = IF c.opened THEN nextHandle + 1 ELSE nextHandle
        /\ dresult' = c.res
        /\ UNCHANGED <<closeCalls, topoVars, ioVars, cfgVars>>

\* the driver-side effect of close() calls with the given outcomes
AfterClose(closed, outcomes) ==
    {s \in active : ~(s.handle \in closed /\ outcomes[s.handle] # "raised_open")}

Disconnect(device_name, outcome) ==
    LET d == disconnect_device(connections, device_name, outcome)
    IN  /\ connections' = d.connections
        /\ active' = AfterClose(d.closed, [h \in Handles |-> outcome])
        /\ closeCalls' = [h \in Handles |-> closeCalls[h] + IF h \in d.closed THEN 1 ELSE 0]
        /\ dresult' = [DBlank EXCEPT !.op = "disconnect", !.device_name = device_name,
                           !.pre = connections, !.exc = d.exc,
                           !.warnings = d.warnings,
                           !.closeCount = [h \in Handles |-> IF h \in d.closed THEN 1 ELSE 0]]
        /\ UNCHANGED <<nextHandle, topoVars, ioVars, cfgVars>>

DisconnectAll(outcomes) ==
    LET d == disconnect_all(connections, outcomes)
    IN  /\ connections' = d.connections
        /\ active' = AfterClose(d.closed, outcomes)
        /\ closeCalls' = [h \in Handles |-> closeCalls[h] + IF h \in d.closed THEN 1 ELSE 0]
        /\ dresult' = [DBlank EXCEPT !.op = "disconnect", !.all = TRUE,
                           !.pre = connections, !.exc = d.exc,
                           !.warnings = d.warnings,
                           !.closeCount = [h \in Handles |-> IF h \in d.closed THEN 1 ELSE 0]]
        /\ UNCHANGED <<nextHandle, topoVars, ioVars, cfgVars>>

Configure(device_name, commands, config_type, outcome, out) ==
    /\ dresult' = configure(connections, device_name, commands, config_type, outcome, out)
    /\ UNCHANGED <<connections, active, closeCalls, nextHandle, topoVars, ioVars, cfgVars>>

ExecuteCommand(device_name, outcome, out) ==
    /\ dresult' = execute_command(connections, device_name, <<"show">>, outcome, out)
    /\ UNCHANGED <<connections, active, closeCalls, nextHandle, topoVars, ioVars, cfgVars>>

CheckReachability(device_name, target_ip, outcome, out) ==
    /\ dresult' = validate_connectivity(connections, device_name, target_ip, outcome, out)
    /\ UNCHANGED <<connections, active, closeCalls, nextHandle, topoVars, ioVars, cfgVars>>

---------------------------------------------------------------------------
(* ConfigManager.render_template.  A text is a sequence of characters, a     *)
(* variables dict the sequence of its (key, value) items in iteration order. *)

\* str(value): a string is itself, an integer its decimal form
StrVal(text) == [kind |-> "str", text |-> text, n |-> 0]
IntVal(n) == [kind |-> "int", text |-> <<>>, n |-> n]
str(value) == IF value.kind = "str" THEN value.text ELSE <<ToString(value.n)>>

\* "{" + key + "}"
placeholder(key) == <<"{">> \o key \o <<"}">>

\* text.replace(old, new): every occurrence, found left to right, not overlapping
RECURSIVE replace(_, _, _)
replace(text, old, new) ==
    IF Len(text) < Len(old) THEN text
    ELSE IF SubSeq(text, 1, Len(old)) = old
         THEN new \o replace(SubSeq(text, Len(old) + 1, Len(text)), old, new)
         ELSE <<Head(text)>> \o replace(Tail(text), old, new)

\* re.findall(r'{([^{}]+)}', text) is not empty
unreplaced_vars(text) ==
    \E i, j \in 1..Len(text) :
        /\ i + 1 < j /\ text[i] = "{" /\ text[j] = "}"
        /\ \A k \in (i + 1)..(j - 1) : text[k] \notin {"{", "}"}

\* the loop over variables.items(), from item i on
RECURSIVE replace_all(_, _, _)
replace_all(rendered_content, variables, i) ==
    IF i > Len(variables) THEN rendered_content
    ELSE replace_all(replace(rendered_content, placeholder(variables[i][1]),
                             str(variables[i][2])),
                     variables, i + 1)

render_template(template_content, variables) ==
    LET rendered_content == replace_all(template_content, variables, 1)
    IN  [CBlank EXCEPT !.op = "render", !.out = rendered_content,
                       !.warnings = IF unreplaced_vars(rendered_content) THEN 1 ELSE 0]

\* the inputs: templates put together from pieces, and variables over x and y
RECURSIVE Flatten(_)
Flatten(pieces) == IF pieces = <<>> THEN <<>> ELSE Head(pieces) \o Flatten(Tail(pieces))

TemplatePieces ==
    {<<"{", "x", "}">>, <<"{", "y", "}">>, <<"{">>, <<"}">>, <<"x">>, <<"-">>}
Templates == {Flatten(p) : p \in Texts(TemplatePieces, MaxTemplatePieces)}
Keys == {<<"x">>, <<"y">>}
Values ==
    {StrVal(<<"f", "o", "o">>), StrVal(<<"{", "y", "}">>), StrVal(<<"{", "x", "}">>),
     StrVal(<<"y">>), IntVal(7)}
VariableDicts ==
    {<<>>} \cup {<<<<k, v>>>> : k \in Keys, v \in Values}
           \cup {<<<<k[1], v1>>, <<k[2], v2>>>> :
                    k \in {p \in Keys \X Keys : p[1] # p[2]}, v1 \in Values, v2 \in Values}

RenderCalls ==
    {[NoCall EXCEPT !.call = "render", !.template = t, !.variables = v] :
        t \in Templates, v \in VariableDicts}

Render ==
    /\ cinput.call = "render"
    /\ cresult' = render_template(cinput.template, cinput.variables)
    /\ UNCHANGED <<cinput, topoVars, devVars, ioVars>>

---------------------------------------------------------------------------
(* ConfigManager.validate_config.  A configuration text is a sequence of     *)
(* fragments; the phrases looked for are sequences of these fragments.       *)

ConfigFragments ==
    {"% ", "Invalid", " input detected", "Incomplete command", "Ambiguous command",
     "interface", "ip address"}
Configs == Texts(ConfigFragments, MaxConfigLen)
DeviceTypes == {"cisco_ios", "juniper_junos"}

\* a variant of the list without its last entry
common_errors_without_last ==
    <<<<"Invalid", " input detected">>, <<"Incomplete command">>, <<"Ambiguous command">>>>

common_errors ==
    <<<<"Invalid", " input detected">>, <<"Incomplete command">>, <<"Ambiguous command">>,
      <<"% ", "Invalid">>>>

validate_config(config, device_type) ==
    IF \E e \in 1..Len(common_errors) : Contains(config, common_errors[e])
    THEN [CBlank EXCEPT !.op = "validate", !.value = FALSE, !.errors = 1]
    ELSE [CBlank EXCEPT !.op = "validate", !.value = TRUE,
              !.warnings = IF /\ device_type = "cisco_ios"
                              /\ Contains(config, <<"interface">>)
                              /\ ~Contains(config, <<"ip address">>)
                           THEN 1 ELSE 0]

ValidateCalls ==
    {[NoCall EXCEPT !.call = "validate", !.config = c, !.device_type = d] :
        c \in Configs, d \in DeviceTypes}

ValidateConfig ==
    /\ cinput.call = "validate"
    /\ cresult' = validate_config(cinput.config, cinput.device_type)
    /\ UNCHANGED <<cinput, topoVars, devVars, ioVars>>

---------------------------------------------------------------------------
(* Specifications *)

\* the TopologyManager, holding any loadable document
Init == TopoInit /\ DevInit /\ IoInit /\ CfgInit

Next ==
    \/ Validate
    \/ \E n \in Names : GetDeviceConnections(n)
    \/ \E n \in Names : GetConnectedDevices(n)
    \/ \E s, t \in Names : FindPath(s, t)

Spec == Init /\ [][Next]_vars

\* the DeviceManager
DevSpecInit == topology = NoTopology /\ result = Blank /\ DevInit /\ IoInit /\ CfgInit

DevSpecNext ==
    \/ \E present \in SUBSET SeqToSet(required_params), host \in Hosts,
          outcome \in DriverOutcomes : Connect(present, host, outcome)
    \/ \E device_name \in Hosts, outcome \in CloseOutcomes : Disconnect(device_name, outcome)
    \/ \E outcomes \in [Handles -> CloseOutcomes] : DisconnectAll(outcomes)

DevSpec == DevSpecInit /\ [][DevSpecNext]_vars

\* the DeviceManager relaying commands over the sessions it holds
RelayNext ==
    \/ \E host \in Hosts : Connect(SeqToSet(required_params), host, "ok")
    \/ \E device_name \in Hosts : Disconnect(device_name, "closed")
    \/ \E device_name \in Hosts, commands \in CommandLists, config_type \in ConfigTypes,
          a \in SessionAnswers(CommandOutputs) :
              Configure(device_name, commands, config_type, a.outcome, a.out)
    \/ \E device_name \in Hosts, a \in SessionAnswers(CommandOutputs) :
              ExecuteCommand(device_name, a.outcome, a.out)

RelaySpec == DevSpecInit /\ [][RelayNext]_vars

\* the DeviceManager checking reachability over the sessions it holds
PingNext ==
    \/ \E host \in Hosts : Connect(SeqToSet(required_params), host, "ok")
    \/ \E device_name \in Hosts : Disconnect(device_name, "closed")
    \/ \E device_name \in Hosts, target_ip \in TargetIps, a \in SessionAnswers(Outputs) :
              CheckReachability(device_name, target_ip, a.outcome, a.out)

PingSpec == DevSpecInit /\ [][PingNext]_vars

\* the ConfigManager, called with any of the arguments
CfgSpecInit ==
    /\ topology = NoTopology /\ result = Blank /\ DevInit /\ IoInit
    /\ cinput \in RenderCalls \cup ValidateCalls
    /\ cresult = CBlank

CfgNext ==
    \/ Render
    \/ ValidateConfig

CfgSpec == CfgSpecInit /\ [][CfgNext]_vars

\* the TopologyManager loading and exporting files; one file exists at start
IoSpecInit ==
    /\ topology = NoTopology /\ result = Blank /\ DevInit /\ CfgInit
    /\ \E p \in Paths, f \in FileContents : fs = [q \in Paths |-> IF q = p THEN f ELSE NoFile]

IoNext ==
    \/ \E topology_file \in Paths : Load(topology_file)
    \/ \E output_file \in Paths, format_type \in Formats : Export(output_file, format_type)

IoSpec == IoSpecInit /\ [][IoNext]_vars

\* the path search on the larger graphs and on ill-formed connection values
PathSpecInit ==
    /\ topology \in PathDocs \cup ConnDocs
    /\ result = Blank /\ DevInit /\ IoInit /\ CfgInit

PathNext == \E s, t \in PathNames : FindPath(s, t)

PathSpec == PathSpecInit /\ [][PathNext]_vars

---------------------------------------------------------------------------
(* Vocabulary of the properties *)

\* the declared devices: the keys of the devices mapping
Declared(doc) ==
    IF ~doc.isNone /\ "devices" \in doc.keys /\ doc.devicesIsDict
    THEN DOMAIN doc.devices ELSE {}

\* a and b are distinct endpoint devices listed together in some connection
Linked(doc, a, b) ==
    /\ a # b
    /\ \E i \in 1..Len(doc.connections) :
           /\ doc.connections[i].isDict
           /\ \E j, k \in 1..Len(doc.connections[i].endpoints) :
                  /\ doc.connections[i].endpoints[j] = Endpoint(a)
                  /\ doc.connections[i].endpoints[k] = Endpoint(b)

RECURSIVE ReachSet(_, _)
ReachSet(doc, R) ==
    LET more == R \cup {b \in Names : \E a \in R : Linked(doc, a, b)}
    IN  IF more = R THEN R ELSE ReachSet(doc, more)

Reachable(doc, a, b) == b \in ReachSet(doc, {a})

PassesValidate(doc) == \A o \in validate_topology(doc) : o.exc = "none" /\ o.value

\* every endpoint position <<connection, endpoint>> of the document
Positions(doc) ==
    UNION {{<<i, j>> : j \in 1..Len(doc.connections[i].endpoints)} :
           i \in 1..Len(doc.connections)}

\* the invariants of the data model other than "every endpoint's device is declared"
ShapeValid(doc) ==
    /\ ~doc.isNone
    /\ {"name", "devices", "connections"} \subseteq doc.keys
    /\ doc.devicesIsDict
    /\ \A n \in DOMAIN doc.devices : AllProps \subseteq doc.devices[n]
    /\ doc.connectionsIsList
    /\ \A i \in 1..Len(doc.connections) :
           doc.connections[i].isDict /\ doc.connections[i].endpointsKind = "list"
    /\ \A p \in Positions(doc) : doc.connections[p[1]].endpoints[p[2]].hasDevice

Undeclared(doc) ==
    {p \in Positions(doc) :
        doc.connections[p[1]].endpoints[p[2]].device \notin DOMAIN doc.devices}

StructurallyValid(doc) == ShapeValid(doc) /\ Undeclared(doc) = {}

FirstUndeclared(doc) ==
    CHOOSE p \in Undeclared(doc) :
        \A q \in Undeclared(doc) : p[1] < q[1] \/ (p[1] = q[1] /\ p[2] <= q[2])

NoRepeats(path) == \A a, b \in 1..Len(path) : path[a] = path[b] => a = b

\* the number of hops of a shortest path from the devices of R (n hops from
\* the start) to b in the induced graph over the declared devices; -1 if none
RECURSIVE Hops(_, _, _, _)
Hops(doc, R, b, n) ==
    LET more == R \cup {y \in Declared(doc) : \E x \in R : Linked(doc, x, y)}
    IN  IF b \in R THEN n
        ELSE IF more = R THEN -1
        ELSE Hops(doc, more, b, n + 1)

MinHops(doc, a, b) == Hops(doc, {a}, b, 0)

---------------------------------------------------------------------------
(* Properties *)

\* C1 (as claimed): for any loaded topology, validated or not, and distinct
\* declared devices source and target with target not reachable from source,
\* findPath returns (false, []) and raises no error.
C1_UnreachableReturnsFalse ==
    (/\ result.op = "findPath"
     /\ ~topology.isNone
     /\ result.src # result.dst
     /\ {result.src, result.dst} \subseteq Declared(topology)
     /\ ~Reachable(topology, result.src, result.dst))
    => (result.exc = "none" /\ ~result.value /\ result.path = <<>>)

\* C2 (as claimed): on a topology that passes validate(), for declared
\* source # target, findPath finds a path exactly when target is reachable in
\* the induced graph; a found path runs from source to target, repeats no
\* device, and its consecutive devices share a connection.
C2_FoundIffReachable ==
    (/\ result.op = "findPath"
     /\ PassesValidate(topology)
     /\ result.src # result.dst
     /\ {result.src, result.dst} \subseteq Declared(topology))
    => /\ result.exc = "none"
       /\ result.value <=> Reachable(topology, result.src, result.dst)
       /\ result.value =>
              /\ Len(result.path) >= 2
              /\ result.path[1] = result.src
              /\ result.path[Len(result.path)] = result.dst
              /\ NoRepeats(result.path)
              /\ \A k \in 1..(Len(result.path) - 1) :
                     Linked(topology, result.path[k], result.path[k + 1])

\* C3: validate() returns true on every loaded topology that satisfies all the
\* structural invariants, whatever the number of devices, connections and
\* endpoints per connection.
C3_ValidTopologyValidates ==
    (result.op = "validate" /\ StructurallyValid(topology))
    => (result.exc = "none" /\ result.value)

\* C3 witness: validate() has returned true on a topology with a one-endpoint
\* connection and a connection that lists one device twice
C3_Witness ==
    /\ result.op = "validate" /\ result.value
    /\ StructurallyValid(topology)
    /\ \E i, k \in 1..Len(topology.connections) :
           /\ Len(topology.connections[i].endpoints) = 1
           /\ Len(topology.connections[k].endpoints) = 2
           /\ topology.connections[k].endpoints[1] = topology.connections[k].endpoints[2]

\* C4 (as claimed): on any loaded document that lacks one or more of name,
\* devices, connections (the document with none of them included), validate()
\* fails with TopologyValidationError naming the missing keys.
C4_MissingKeysRejected ==
    (/\ result.op = "validate"
     /\ ~topology.isNone
     /\ ~({"name", "devices", "connections"} \subseteq topology.keys))
    => /\ result.exc = "TopologyValidationError"
       /\ result.tag = "MissingKeys"
       /\ SeqToSet(result.missing) = {"name", "devices", "connections"} \ topology.keys

\* C5: on a loaded topology that satisfies every other invariant (every
\* endpoint carries a device entry) and has an endpoint whose device is not
\* declared, validate() fails with TopologyValidationError naming the first such
\* device in connection order, then endpoint order, and reports that one
\* violation only.
C5_FirstUndeclaredReported ==
    (result.op = "validate" /\ ShapeValid(topology) /\ Undeclared(topology) # {})
    => LET p == FirstUndeclared(topology)
       IN  /\ result.exc = "TopologyValidationError"
           /\ result.tag = "NonExistentDevice"
           /\ result.subject = topology.connections[p[1]].endpoints[p[2]].device
           /\ result.index = p[1] - 1
           /\ result.errors = 1

\* C5 witness: validate() has failed on a topology with two different undeclared
\* devices, the first of them in the second endpoint of its connection
C5_Witness ==
    /\ result.op = "validate" /\ result.tag = "NonExistentDevice"
    /\ ShapeValid(topology)
    /\ FirstUndeclared(topology)[2] = 2
    /\ \E q \in Undeclared(topology) :
           topology.connections[q[1]].endpoints[q[2]].device # result.subject

\* C6 (as claimed): with a topology loaded, findPath fails with UnknownDevice
\* (a ValueError naming the device) whenever source or target is not a key of
\* devices, the source checked first, and traverses no connection.
C6_UnknownDeviceRejected ==
    (/\ result.op = "findPath"
     /\ ~topology.isNone
     /\ ~({result.src, result.dst} \subseteq Declared(topology)))
    => /\ result.exc = "ValueError"
       /\ result.iters = 0
       /\ IF result.src \notin Declared(topology)
          THEN result.tag = "SourceNotFound" /\ result.subject = result.src
          ELSE result.tag = "TargetNotFound" /\ result.subject = result.dst

\* C7: for a declared device X, findPath(X, X) returns (true, [X]) without
\* reading the connections, whatever the connections value is.
C7_SameDeviceShortcut ==
    (/\ result.op = "findPath"
     /\ result.src = result.dst
     /\ result.src \in Declared(topology))
    => /\ result.exc = "none"
       /\ result.value
       /\ result.path = <<result.src>>
       /\ result.iters = 0

\* C7 witness: findPath(X, X) has returned (true, [X]) on a topology whose
\* connections value is not even a list
C7_Witness ==
    /\ result.op = "findPath" /\ result.src = result.dst
    /\ result.src \in Declared(topology)
    /\ "connections" \in topology.keys /\ ~topology.connectionsIsList
    /\ result.value /\ result.path = <<result.src>>

\* C8: a successful connect stores the returned handle under params.host,
\* replacing any handle stored there, and leaves every other entry alone; a
\* failed connect leaves the session map as it was: with a required parameter
\* missing the driver is not called, and a timeout, authentication or other
\* driver error reaches the caller as DeviceConnectionError.
C8_ConnectUpdatesOnlyItsHost ==
    dresult.op = "connect" =>
        IF dresult.exc = "none"
        THEN /\ "host" \in dresult.present
             /\ dresult.driver = "ok"
             /\ DOMAIN connections = DOMAIN dresult.pre \cup {dresult.device_name}
             /\ connections[dresult.device_name] = dresult.handle
             /\ \A d \in DOMAIN dresult.pre \ {dresult.device_name} :
                    connections[d] = dresult.pre[d]
        ELSE /\ connections = dresult.pre
             /\ (SeqToSet(required_params) \subseteq dresult.present)
                    <=> dresult.driver # "notcalled"
             /\ dresult.driver # "notcalled" =>
                    /\ dresult.driver \in {"timeout", "auth", "other"}
                    /\ dresult.exc = "DeviceConnectionError"

\* C8 witness: a connect has succeeded for a host that already had a session,
\* with another host's session in the map
C8_Witness ==
    /\ dresult.op = "connect" /\ dresult.exc = "none"
    /\ dresult.device_name \in DOMAIN dresult.pre
    /\ dresult.pre[dresult.device_name] # dresult.handle
    /\ connections[dresult.device_name] = dresult.handle
    /\ DOMAIN dresult.pre # {dresult.device_name}

\* C9 (as claimed): after any sequence of connect and disconnect calls every
\* active session (opened by the driver, not yet closed) is the one the session
\* map holds under its device identifier, so there is at most one per
\* identifier, and a device has an active session exactly when the map has an
\* entry for it.
C9_OneActiveSessionPerDevice ==
    /\ \A s \in active :
           s.host \in DOMAIN connections /\ connections[s.host] = s.handle
    /\ \A d \in DOMAIN connections : \E s \in active : s.host = d

\* C10: disconnect(id) removes the entry of id and nothing else, disconnect()
\* empties the map; close is called exactly once on every removed session and
\* on no other, whether or not a close raises; nothing is raised to the caller;
\* disconnect(id) without a session for id changes nothing.
C10_DisconnectRemovesAndCloses ==
    dresult.op = "disconnect" =>
        /\ dresult.exc = "none"
        /\ IF dresult.all
           THEN /\ connections = EmptyMap
                /\ \A h \in Handles :
                       dresult.closeCount[h] =
                           IF \E d \in DOMAIN dresult.pre : dresult.pre[d] = h THEN 1 ELSE 0
           ELSE /\ DOMAIN connections = DOMAIN dresult.pre \ {dresult.device_name}
                /\ \A d \in DOMAIN connections : connections[d] = dresult.pre[d]
                /\ \A h \in Handles :
                       dresult.closeCount[h] =
                           IF /\ dresult.device_name \in DOMAIN dresult.pre
                              /\ dresult.pre[dresult.device_name] = h
                           THEN 1 ELSE 0
                /\ dresult.device_name \notin DOMAIN dresult.pre =>
                       connections = dresult.pre

\* C10 witness: disconnect(id) has removed a session whose close raised, and
\* another session is still in the map
C10_Witness ==
    /\ dresult.op = "disconnect" /\ ~dresult.all
    /\ dresult.device_name \in DOMAIN dresult.pre
    /\ dresult.warnings = 1
    /\ dresult.device_name \notin DOMAIN connections
    /\ connections # EmptyMap

\* C11: configure on a device without a session in the map fails with
\* DeviceConnectionError whatever the mode; with a session and a mode other than
\* "commands" or "file" it fails with ValueError; in both cases nothing is sent
\* to the session and the session map is unchanged.  With a session and a valid
\* mode (in "file" mode the list holding the file's path), the text the session
\* answers is returned as it is.
C11_ConfigureErrors ==
    dresult.op = "configure" =>
        /\ connections = dresult.pre
        /\ IF dresult.device_name \notin DOMAIN dresult.pre
           THEN dresult.exc = "DeviceConnectionError" /\ dresult.sent = "none"
           ELSE IF dresult.config_type \notin {"commands", "file"}
           THEN dresult.exc = "ValueError" /\ dresult.sent = "none"
           ELSE (dresult.config_type = "file" => dresult.commands # <<>>) =>
                    /\ dresult.sent =
                           IF dresult.config_type = "commands"
                           THEN "send_config_set" ELSE "send_config_from_file"
                    /\ dresult.sentOn = dresult.pre[dresult.device_name]
                    /\ dresult.sentArg =
                           IF dresult.config_type = "commands"
                           THEN dresult.commands ELSE <<dresult.commands[1]>>
                    /\ dresult.exc \in {"none", "DriverError"}
                    /\ dresult.exc = "none" => dresult.output = dresult.driverOutput

\* C11 witness: a configure in "file" mode on a held session has returned a
\* non-empty text, with another session in the map
C11_Witness ==
    /\ dresult.op = "configure" /\ dresult.exc = "none"
    /\ dresult.config_type = "file"
    /\ dresult.output # <<>> /\ dresult.output = dresult.driverOutput
    /\ DOMAIN connections = Hosts

\* C12: checkReachability never raises and leaves the session map alone: it
\* returns false when no session exists for the device or the session raises on
\* the ping; otherwise it returns false exactly when the captured output
\* contains "Success rate is 0" or "0 packets received", and true in every
\* other case.
C12_ReachabilityNeverRaises ==
    dresult.op = "checkReachability" =>
        /\ dresult.exc = "none"
        /\ connections = dresult.pre
        /\ IF dresult.device_name \notin DOMAIN dresult.pre
           THEN ~dresult.reachable /\ dresult.sent = "none"
           ELSE IF dresult.driver = "raises"
           THEN ~dresult.reachable
           ELSE dresult.reachable <=>
                    ~(\/ Contains(dresult.driverOutput, <<"Success rate is ", "0">>)
                      \/ Contains(dresult.driverOutput, <<"0", " packets received">>))

\* C12 witness: checkReachability has answered false on a captured output that
\* holds "0 packets received" and not "Success rate is 0"
C12_Witness ==
    /\ dresult.op = "checkReachability" /\ dresult.driver = "returns"
    /\ ~dresult.reachable
    /\ Contains(dresult.driverOutput, <<"0", " packets received">>)
    /\ ~Contains(dresult.driverOutput, <<"Success rate is ", "0">>)

\* C13 (as claimed): every error an operation raises to its caller is preceded,
\* within the same call, by a log entry at error level.
C13_ErrorsLoggedBeforeRaise ==
    /\ dresult.exc # "none" => dresult.errors >= 1
    /\ result.exc # "none" => result.errors >= 1

\* what the claim describes: one pass over the template in which every
\* occurrence of a placeholder of a key of variables is replaced by the textual
\* form of its value and every other character is kept
RECURSIVE Substituted(_, _)
Substituted(text, variables) ==
    IF text = <<>> THEN <<>>
    ELSE LET hits == {i \in 1..Len(variables) :
                         /\ Len(placeholder(variables[i][1])) <= Len(text)
                         /\ SubSeq(text, 1, Len(placeholder(variables[i][1])))
                                = placeholder(variables[i][1])}
         IN  IF hits = {} THEN <<Head(text)>> \o Substituted(Tail(text), variables)
             ELSE LET i == CHOOSE h \in hits : TRUE
                  IN  str(variables[i][2]) \o
                      Substituted(SubSeq(text, Len(placeholder(variables[i][1])) + 1,
                                         Len(text)), variables)

\* C14 (as claimed): render returns the template with every literal {key} of a
\* key of variables replaced by the textual form of its value and nothing else
\* changed; placeholders of other keys stay; text brought in by one value is not
\* substituted by another key, so the order of the variables does not matter.
C14_RenderSubstitutesTemplateOnly ==
    cresult.op = "render" =>
        cresult.out = Substituted(cinput.template, cinput.variables)

\* C15: validateConfig returns false exactly when the text contains at least
\* one of "Invalid input detected", "Incomplete command", "Ambiguous command",
\* "% Invalid", for every device kind; a text with "interface" and without
\* "ip address" that holds none of the four still yields true.
C15_ValidateConfigFourPhrases ==
    cresult.op = "validate" =>
        /\ cresult.exc = "none"
        /\ ~cresult.value <=>
               \/ Contains(cinput.config, <<"Invalid", " input detected">>)
               \/ Contains(cinput.config, <<"Incomplete command">>)
               \/ Contains(cinput.config, <<"Ambiguous command">>)
               \/ Contains(cinput.config, <<"% ", "Invalid">>)

\* C15 witness: a cisco_ios text with "interface" and without "ip address" has
\* been accepted with a warning
C15_Witness ==
    /\ cresult.op = "validate" /\ cresult.value /\ cresult.warnings = 1
    /\ cinput.device_type = "cisco_ios"
    /\ Contains(cinput.config, <<"interface">>)
    /\ ~Contains(cinput.config, <<"ip address">>)
    /\ Contains(cinput.config, <<"Invalid">>)

---------------------------------------------------------------------------
(* C16: for any loaded topology T and either format, export(path, format)  *)
(* followed by load(path), path carrying the extension of the format,      *)
(* leaves the manager holding a topology equal to T; the export itself     *)
(* succeeds and leaves the held topology unchanged.                        *)

MatchingExtension(path, format_type) ==
    \/ format_type = "yaml" /\ file_extension(path) = ".yaml"
    \/ format_type = "json" /\ file_extension(path) = ".json"

C16_ExportLoadRoundTrip ==
    [][/\ result'.op = "export" => topology' = topology
       /\ (result'.op = "export" /\ IsMapping(topology) /\ result'.dst \in {"yaml", "json"})
              => result'.exc = "none"
       /\ (/\ result.op = "export" /\ result.exc = "none" /\ IsMapping(topology)
           /\ MatchingExtension(result.src, result.dst)
           /\ result'.op = "load" /\ result'.src = result.src)
              => (result'.exc = "none" /\ topology' = topology)]_vars

---------------------------------------------------------------------------
(* C18: a load that fails (file absent, unsupported extension, syntax      *)
(* error, or content that is not a mapping) leaves the held topology       *)
(* unchanged.                                                              *)

C18_FailedLoadKeepsTopology ==
    [][(result'.op = "load" /\ result'.exc # "none") => topology' = topology]_vars

---------------------------------------------------------------------------
(* C17 (as claimed): on a topology that passes validate(), for declared    *)
(* source # target with target reachable, the path findPath returns has    *)
(* the minimum number of hops among the paths from source to target in the *)
(* induced graph, whatever order the neighbours are iterated in.           *)

C17_PathHasMinimumHops ==
    (/\ result.op = "findPath"
     /\ PassesValidate(topology)
     /\ result.src # result.dst
     /\ {result.src, result.dst} \subseteq Declared(topology)
     /\ MinHops(topology, result.src, result.dst) >= 0
     /\ result.exc = "none" /\ result.value)
    => Len(result.path) - 1 = MinHops(topology, result.src, result.dst)

---------------------------------------------------------------------------
(* C19: findPath ends on every loaded topology, cycles, parallel links,    *)
(* multi-party connections and connections listing a device twice          *)
(* included: every call has an outcome, no device is put on the queue      *)
(* twice, and the search loop runs at most once per declared device.       *)

C19_SearchBounded ==
    /\ (~topology.isNone /\ result.op = "none")
           => \A s, t \in PathNames : verify_connectivity_path(topology, s, t) # {}
    /\ (~topology.isNone /\ result.op = "findPath")
           => /\ NoRepeats(result.enqueued)
              /\ result.iters <= Cardinality(Declared(topology))
              /\ result.iters <= Len(result.enqueued)

\* C19 witness: a search over a cycle with a three-party connection and a
\* connection listing a device twice has emptied its queue without reaching
\* the target, after visiting three devices
C19_Witness ==
    /\ result.op = "findPath" /\ result.exc = "none" /\ ~result.value
    /\ result.iters = 3 /\ Len(result.enqueued) = 3
    /\ \E i, k \in 1..Len(topology.connections) :
           /\ Len(topology.connections[i].endpoints) = 3
           /\ NoRepeats(topology.connections[i].endpoints)
           /\ Len(topology.connections[k].endpoints) = 3
           /\ ~NoRepeats(topology.connections[k].endpoints)
    /\ Linked(topology, "A", "C") /\ Linked(topology, "C", "D") /\ Linked(topology, "A", "D")

====
